---- MODULE Spec2Model ----
(***************************************************************************)
(* Personal Library Manager (src/library-manager.py): the session's book   *)
(* list, the JSON file it is saved to and loaded from, and the pages of    *)
(* the Streamlit script that act on them.                                  *)
(*                                                                         *)
(* Spec      one session: the library starts empty and every step is one   *)
(*           run of the script for one user interaction.                   *)
(* SpecCore  the book management and file functions applied to every       *)
(*           bounded library and every input.                              *)
(***************************************************************************)
EXTENDS Integers, Sequences, FiniteSets, TLC

VARIABLES library, files, now, last

vars == <<library, files, now, last>>

(***************************************************************************)
(* Bounds of the model.                                                    *)
(***************************************************************************)
\* Add submissions accepted in one session (each takes one second of clock).
MaxAdds == 2
\* Longest library SpecCore starts from.
MaxStore == 2
\* Most chunks json.dump hands to the file before a write fails.
MaxChunks == 2
\* datetime.now().year, the upper end of the year widget.
CurrentYear == 2

(***************************************************************************)
(* Python values. Each value is a record with one field naming its type,   *)
(* so values of different types are different and never confused.          *)
(***************************************************************************)
PyInt(n) == [int |-> n]
PyStr(s) == [str |-> s]
PyBool(b) == [bool |-> b]
PyList(xs) == [list |-> xs]
PyDict(d) == [dict |-> d]

IsInt(v) == DOMAIN v = {"int"}
IsStr(v) == DOMAIN v = {"str"}
IsBool(v) == DOMAIN v = {"bool"}
IsList(v) == DOMAIN v = {"list"}
IsDict(v) == DOMAIN v = {"dict"}

\* bool(v): what `if v:` and `a and b` test.
Truthy(v) ==
    IF IsInt(v) THEN v.int # 0
    ELSE IF IsStr(v) THEN v.str # <<>>
    ELSE IF IsBool(v) THEN v.bool
    ELSE IF IsList(v) THEN v.list # <<>>
    ELSE DOMAIN v.dict # {}

\* v[key] for a string key: only a dict holding the key has it (KeyError or
\* TypeError otherwise).
HasItem(v, key) == IsDict(v) /\ key \in DOMAIN v.dict

\* `for x in v` is possible (an int or a bool raises TypeError).
Iterable(v) == IsList(v) \/ IsDict(v) \/ IsStr(v)

\* len(v), for a value that has one.
PyLen(v) ==
    IF IsList(v) THEN Len(v.list)
    ELSE IF IsStr(v) THEN Len(v.str)
    ELSE Cardinality(DOMAIN v.dict)

(***************************************************************************)
(* Strings are sequences of characters.                                    *)
(***************************************************************************)
Digits == <<"0", "1", "2", "3", "4", "5", "6", "7", "8", "9">>
UpperCase == <<"A", "B", "C", "D", "E", "F", "G", "H", "I", "J", "K", "L", "M",
               "N", "O", "P", "Q", "R", "S", "T", "U", "V", "W", "X", "Y", "Z">>
LowerCase == <<"a", "b", "c", "d", "e", "f", "g", "h", "i", "j", "k", "l", "m",
               "n", "o", "p", "q", "r", "s", "t", "u", "v", "w", "x", "y", "z">>
\* The characters in code point order.
CodePoints == Digits \o UpperCase \o LowerCase

Characters == {CodePoints[i] : i \in 1..Len(CodePoints)}

\* ord(c)
OrdTable == [c \in Characters |-> CHOOSE i \in 1..Len(CodePoints) : CodePoints[i] = c]
Ord(c) == OrdTable[c]

\* The lower case of each character.
LowerTable ==
    [c \in Characters |->
        IF \E i \in 1..Len(UpperCase) : UpperCase[i] = c
        THEN LowerCase[CHOOSE i \in 1..Len(UpperCase) : UpperCase[i] = c]
        ELSE c]
LowerChar(c) == LowerTable[c]

\* str.lower()
lower(s) == [i \in 1..Len(s) |-> LowerChar(s[i])]

\* `a in b` for two strings
Contains(a, b) ==
    \E i \in 0..(Len(b) - Len(a)) : SubSeq(b, i + 1, i + Len(a)) = a

\* a < b for two strings: by code point at the first difference, a proper
\* prefix first.
StrLess(a, b) ==
    LET differ == {i \in 1..Len(a) : i <= Len(b) /\ a[i] # b[i]} IN
    IF differ = {} THEN Len(a) < Len(b)
    ELSE LET i == CHOOSE i \in differ : \A j \in differ : i <= j
         IN  Ord(a[i]) < Ord(b[i])

\* datetime.now().strftime(...): the clock as zero-padded digits, so that
\* the strings order as the times do.
Strftime(t) == <<Digits[((t \div 10) % 10) + 1], Digits[(t % 10) + 1]>>

(***************************************************************************)
(* JSON text. A file's text is the sequence of chunks json.dump writes:    *)
(* punctuation, object keys, and the string, number and true/false         *)
(* literals.                                                               *)
(***************************************************************************)
Punct(c) == [p |-> c]
KeyTok(k) == [k |-> k]
StrTok(s) == [s |-> s]
NumTok(n) == [n |-> n]
BoolTok(b) == [b |-> b]

IsPunct(tok, c) == DOMAIN tok = {"p"} /\ tok.p = c

\* The keys of a book, in the order add_book writes them.
BookKeys == <<"title", "author", "year", "genre", "read_status", "added_date">>

\* Faulty variant of KeysOf: the added_date is not written.
KeysOf_without_date(d) == SelectSeq(BookKeys, LAMBDA k : k \in DOMAIN d /\ k # "added_date")

\* The keys of dict d in the order they are written.
KeysOf(d) == SelectSeq(BookKeys, LAMBDA k : k \in DOMAIN d)

RECURSIVE JsonEncode(_)
RECURSIVE EncodeItems(_, _)
RECURSIVE EncodeMembers(_, _, _)

\* The items of a list from the i-th on, separated by commas.
EncodeItems(xs, i) ==
    IF i > Len(xs) THEN <<>>
    ELSE (IF i > 1 THEN <<Punct(",")>> ELSE <<>>)
         \o JsonEncode(xs[i]) \o EncodeItems(xs, i + 1)

\* The members of dict d with the keys ks, from the i-th key on.
EncodeMembers(d, ks, i) ==
    IF i > Len(ks) THEN <<>>
    ELSE (IF i > 1 THEN <<Punct(",")>> ELSE <<>>)
         \o <<KeyTok(ks[i]), Punct(":")>> \o JsonEncode(d[ks[i]])
         \o EncodeMembers(d, ks, i + 1)

\* json.dump(v, f): the chunks written for v.
JsonEncode(v) ==
    IF IsInt(v) THEN <<NumTok(v.int)>>
    ELSE IF IsBool(v) THEN <<BoolTok(v.bool)>>
    ELSE IF IsStr(v) THEN <<StrTok(v.str)>>
    ELSE IF IsList(v)
         THEN <<Punct("[")>> \o EncodeItems(v.list, 1) \o <<Punct("]")>>
    ELSE <<Punct("{")>> \o EncodeMembers(v.dict, KeysOf(v.dict), 1)
         \o <<Punct("}")>>

\* A parse step's result: the value read and the position after it.
Parsed(v, i) == [ok |-> TRUE, val |-> v, next |-> i]
ParseError == [ok |-> FALSE, val |-> PyInt(0), next |-> 0]

\* The dict of a sequence of <<key, value>> pairs; a repeated key keeps its
\* last value.
DictOf(pairs) ==
    [k \in {pairs[i][1] : i \in 1..Len(pairs)} |->
        pairs[CHOOSE i \in 1..Len(pairs) :
                /\ pairs[i][1] = k
                /\ \A j \in (i + 1)..Len(pairs) : pairs[j][1] # k][2]]

RECURSIVE ParseValue(_, _)
RECURSIVE ParseItems(_, _, _)
RECURSIVE ParseMembers(_, _, _)

\* The items of an array after its "[" or a ",": a value, then "," or "]".
ParseItems(toks, i, acc) ==
    LET r == ParseValue(toks, i) IN
    IF ~r.ok \/ r.next > Len(toks) THEN ParseError
    ELSE IF IsPunct(toks[r.next], "]")
         THEN Parsed(PyList(Append(acc, r.val)), r.next + 1)
    ELSE IF IsPunct(toks[r.next], ",")
         THEN ParseItems(toks, r.next + 1, Append(acc, r.val))
    ELSE ParseError

\* The members of an object after its "{" or a ",": key, ":", value, then
\* "," or "}".
ParseMembers(toks, i, acc) ==
    IF i + 1 > Len(toks) THEN ParseError
    ELSE IF DOMAIN toks[i] # {"k"} \/ ~IsPunct(toks[i + 1], ":") THEN ParseError
    ELSE LET r == ParseValue(toks, i + 2) IN
         IF ~r.ok \/ r.next > Len(toks) THEN ParseError
         ELSE IF IsPunct(toks[r.next], "}")
              THEN Parsed(PyDict(DictOf(Append(acc, <<toks[i].k, r.val>>))),
                          r.next + 1)
         ELSE IF IsPunct(toks[r.next], ",")
              THEN ParseMembers(toks, r.next + 1,
                                Append(acc, <<toks[i].k, r.val>>))
         ELSE ParseError

\* One JSON value starting at position i.
ParseValue(toks, i) ==
    IF i > Len(toks) THEN ParseError
    ELSE LET tok == toks[i] IN
         IF DOMAIN tok = {"n"} THEN Parsed(PyInt(tok.n), i + 1)
         ELSE IF DOMAIN tok = {"b"} THEN Parsed(PyBool(tok.b), i + 1)
         ELSE IF DOMAIN tok = {"s"} THEN Parsed(PyStr(tok.s), i + 1)
         ELSE IF IsPunct(tok, "[")
              THEN IF i + 1 <= Len(toks) /\ IsPunct(toks[i + 1], "]")
                   THEN Parsed(PyList(<<>>), i + 2)
                   ELSE ParseItems(toks, i + 1, <<>>)
         ELSE IF IsPunct(tok, "{")
              THEN IF i + 1 <= Len(toks) /\ IsPunct(toks[i + 1], "}")
                   THEN Parsed(PyDict(<<>>), i + 2)
                   ELSE ParseMembers(toks, i + 1, <<>>)
         ELSE ParseError

\* json.load(f): the whole text must be one value (JSONDecodeError if not).
JsonDecode(toks) ==
    LET r == ParseValue(toks, 1) IN
    IF r.ok /\ r.next = Len(toks) + 1 THEN r ELSE ParseError

(***************************************************************************)
(* The book management functions. Each is an operator from the library     *)
(* (and the arguments) to the library afterwards, the message shown and    *)
(* the value returned. msg "exception" is an exception that leaves the     *)
(* function.                                                               *)
(***************************************************************************)
None == [none |-> TRUE]
Result(lib, msg, out) == [library |-> lib, msg |-> msg, out |-> out]

\* What `for book in v` yields: the items of a list, the keys of a dict,
\* the characters of a string.
IterItems(v) ==
    IF IsList(v) THEN v.list
    ELSE IF IsDict(v)
         THEN [i \in 1..Len(KeysOf(v.dict)) |-> PyStr(<<KeysOf(v.dict)[i]>>)]
    ELSE [i \in 1..Len(v.str) |-> PyStr(<<v.str[i]>>)]

\* book[key].lower() is defined.
HasStr(book, key) == HasItem(book, key) /\ IsStr(book.dict[key])

\* add_book(title, author, year, genre, read_status) at clock t
add_book(lib, title, author, year, genre, read_status, t) ==
    LET new_book == PyDict([title |-> title,
                            author |-> author,
                            year |-> year,
                            genre |-> genre,
                            read_status |-> read_status,
                            added_date |-> PyStr(Strftime(t))])
    IN  IF IsList(lib)
        THEN Result(PyList(Append(lib.list, new_book)), "success", None)
        ELSE Result(lib, "exception", None)

\* list.pop(i) (i counted from 1)
Pop(xs, i) == SubSeq(xs, 1, i - 1) \o SubSeq(xs, i + 1, Len(xs))

RECURSIVE RemoveLoop(_, _, _)
\* The loop of remove_book from the i-th item on.
RemoveLoop(lib, title, i) ==
    LET items == IterItems(lib) IN
    IF i > Len(items) THEN Result(lib, "warning", None)
    ELSE IF ~HasStr(items[i], "title") THEN Result(lib, "exception", None)
    ELSE IF lower(items[i].dict.title.str) = lower(title.str)
         THEN Result(PyList(Pop(lib.list, i)), "success", None)
    ELSE RemoveLoop(lib, title, i + 1)

\* Faulty variant of remove_book: the last record with the title is removed.
remove_book_last_match(lib, title) ==
    IF ~IsList(lib) \/ \E i \in 1..Len(lib.list) : ~HasStr(lib.list[i], "title")
    THEN Result(lib, "exception", None)
    ELSE LET hits == {i \in 1..Len(lib.list) :
                        lower(lib.list[i].dict.title.str) = lower(title.str)} IN
         IF hits = {} THEN Result(lib, "warning", None)
         ELSE Result(PyList(Pop(lib.list, CHOOSE i \in hits : \A j \in hits : j <= i)),
                     "success", None)

\* remove_book(title)
remove_book(lib, title) ==
    IF ~Iterable(lib) THEN Result(lib, "exception", None)
    ELSE IF IterItems(lib) # <<>> /\ ~IsStr(title)
         THEN Result(lib, "exception", None)
    ELSE RemoveLoop(lib, title, 1)

RECURSIVE SearchLoop(_, _, _, _, _)
\* The loop of search_books from the i-th item on, with the results so far.
SearchLoop(lib, search_term, search_by, i, results) ==
    LET items == IterItems(lib) IN
    IF i > Len(items) THEN Result(lib, "none", PyList(results))
    ELSE IF ~HasStr(items[i], search_by) THEN Result(lib, "exception", None)
    ELSE SearchLoop(lib, search_term, search_by, i + 1,
            IF Contains(lower(search_term.str), lower(items[i].dict[search_by].str))
            THEN Append(results, items[i])
            ELSE results)

\* Faulty variant of search_books: the term is compared as typed.
search_books_case_sensitive(lib, search_term, search_by) ==
    IF ~IsList(lib) \/ \E i \in 1..Len(lib.list) : ~HasStr(lib.list[i], search_by)
    THEN Result(lib, "exception", None)
    ELSE Result(lib, "none",
            PyList(SelectSeq(lib.list,
                LAMBDA book : Contains(search_term.str, lower(book.dict[search_by].str)))))

\* search_books(search_term, search_by)
search_books(lib, search_term, search_by) ==
    IF ~Iterable(lib) THEN Result(lib, "exception", None)
    ELSE SearchLoop(lib, search_term, search_by, 1, <<>>)

\* A float, kept as the exact fraction num/den in lowest terms.
Gcd(a, b) == CHOOSE g \in 1..(IF a > b THEN a ELSE b) :
                /\ a % g = 0 /\ b % g = 0
                /\ \A h \in (g + 1)..(IF a > b THEN a ELSE b) : a % h # 0 \/ b % h # 0
PyFloat(num, den) ==
    IF num = 0 THEN [float |-> <<0, 1>>]
    ELSE [float |-> <<num \div Gcd(num, den), den \div Gcd(num, den)>>]

\* sum(1 for book in library if book['read_status'])
CountRead(items) == Cardinality({i \in 1..Len(items) : Truthy(items[i].dict.read_status)})

\* Faulty variant of Percentage: the ratio is not scaled to a percentage.
Percentage_unscaled(read_books, total_books) == PyFloat(read_books, total_books)

\* read_books / total_books * 100
Percentage(read_books, total_books) ==
    LET ratio == PyFloat(read_books, total_books)
    IN  PyFloat(ratio.float[1] * 100, ratio.float[2])

\* calculate_statistics()
calculate_statistics(lib) ==
    IF ~Iterable(lib) THEN Result(lib, "exception", None)
    ELSE LET items == IterItems(lib)
             total_books == PyLen(lib)
         IN  IF \E i \in 1..Len(items) : ~HasItem(items[i], "read_status")
             THEN Result(lib, "exception", None)
             ELSE LET read_books == CountRead(items) IN
                  Result(lib, "none",
                    PyDict([total_books |-> PyInt(total_books),
                            read_books |-> PyInt(read_books),
                            unread_books |-> PyInt(total_books - read_books),
                            read_percentage |->
                                IF total_books > 0
                                THEN Percentage(read_books, total_books)
                                ELSE PyInt(0)]))

(***************************************************************************)
(* The file functions. files[f] is the file named f: whether it exists     *)
(* and its text.                                                           *)
(***************************************************************************)
NoFile == [exists |-> FALSE, text |-> <<>>]
FileOf(text) == [exists |-> TRUE, text |-> text]

\* save_library_to_file(filename). opened: open(filename, 'w') succeeds;
\* written: the chunks that reach the file before a write fails (all of
\* them when none does). open(..., 'w') empties the file before any chunk
\* is written.
save_library_to_file(lib, fs, filename, opened, written) ==
    LET chunks == JsonEncode(lib) IN
    IF ~opened THEN [files |-> fs, msg |-> "error"]
    ELSE IF written < Len(chunks)
         THEN [files |-> [fs EXCEPT ![filename] = FileOf(SubSeq(chunks, 1, written))],
               msg |-> "error"]
    ELSE [files |-> [fs EXCEPT ![filename] = FileOf(chunks)], msg |-> "success"]

\* Faulty variant of load_library_from_file: a missing file empties the library.
load_library_from_file_clearing(lib, fs, filename, readable) ==
    IF ~fs[filename].exists THEN Result(PyList(<<>>), "warning", None)
    ELSE IF ~readable THEN Result(lib, "error", None)
    ELSE LET r == JsonDecode(fs[filename].text) IN
         IF r.ok THEN Result(r.val, "success", None)
         ELSE Result(lib, "error", None)

\* load_library_from_file(filename). readable: open and read succeed.
load_library_from_file(lib, fs, filename, readable) ==
    IF ~fs[filename].exists THEN Result(lib, "warning", None)
    ELSE IF ~readable THEN Result(lib, "error", None)
    ELSE LET r == JsonDecode(fs[filename].text) IN
         IF r.ok THEN Result(r.val, "success", None)
         ELSE Result(lib, "error", None)

(***************************************************************************)
(* list.sort(key=..., reverse=...): stable, and stable under reverse too.  *)
(***************************************************************************)
\* a < b for two keys of one type
KeyLess(a, b) == IF IsInt(a) THEN a.int < b.int ELSE StrLess(a.str, b.str)

\* The keys can be ordered: one key is never compared; otherwise all are
\* strings or all are numbers (TypeError if not).
Comparable(keys) ==
    \/ Len(keys) <= 1
    \/ \A i \in 1..Len(keys) : IsStr(keys[i])
    \/ \A i \in 1..Len(keys) : IsInt(keys[i])

\* Item i must come after item j although i is the earlier one.
SortsAfter(keys, reverse, i, j) ==
    IF reverse THEN KeyLess(keys[i], keys[j]) ELSE KeyLess(keys[j], keys[i])

RECURSIVE SortedOrder(_, _, _)
\* The positions 1..n in sorted order: position n goes behind every earlier
\* one that need not come after it, so equal keys keep their order.
SortedOrder(keys, reverse, n) ==
    IF n = 0 THEN <<>>
    ELSE LET earlier == CHOOSE order \in {SortedOrder(keys, reverse, n - 1)} : TRUE IN
         SelectSeq(earlier, LAMBDA j : ~SortsAfter(keys, reverse, j, n))
         \o <<n>>
         \o SelectSeq(earlier, LAMBDA j : SortsAfter(keys, reverse, j, n))

Sorted(items, keys, reverse) ==
    LET order == CHOOSE order \in {SortedOrder(keys, reverse, Len(items))} : TRUE
    IN  [r \in 1..Len(items) |-> items[order[r]]]

(***************************************************************************)
(* The pages of the script: one run for one user interaction.              *)
(***************************************************************************)
menu_options == <<"Add a Book", "Remove a Book", "Search for Books",
                  "View All Books", "View Statistics", "Save/Load Library">>

Fiction == <<"F", "i", "c", "t", "i", "o", "n">>
Other == <<"O", "t", "h", "e", "r">>

Form(title, author, year, genre, read_status) ==
    [title |-> PyStr(title), author |-> PyStr(author), year |-> PyInt(year),
     genre |-> PyStr(genre), read_status |-> PyBool(read_status)]

\* Submissions of the Add form that pass the submit guard ...
ValidForms ==
    { Form(<<"A", "b">>, <<"C", "d">>, CurrentYear, Fiction, FALSE),
      Form(<<"a">>, <<"c", "D">>, 1, Other, TRUE),
      Form(<<"A">>, <<"e">>, 1, Fiction, TRUE) }
\* ... and all submissions: also an empty title, an empty author, year 0.
AddForms ==
    ValidForms \cup
    { Form(<<>>, <<"e">>, 1, Other, FALSE),
      Form(<<"a">>, <<>>, 1, Other, FALSE),
      Form(<<"a">>, <<"e">>, 0, Fiction, TRUE) }

SearchFields == {"title", "author", "genre"}
NonEmptyTerms == {<<"B">>, <<"c">>}
SortKeys == {"Recently Added", "Title", "Author", "Year"}
Filenames == {"library.json"}

\* The last interaction: the page or function, its inputs, the message
\* shown ("none": plain output only; "exception": an exception left the
\* script) and the value displayed or returned.
Last(op, args, msg, out) ==
    [op |-> op, args |-> args, msg |-> msg, out |-> out, follows_save |-> FALSE]

\* "Add a Book": the form is submitted at clock second now + 1.
AddPage(form) ==
    /\ now < MaxAdds
    /\ LET passes == Truthy(form.title) /\ Truthy(form.author) /\ Truthy(form.year)
           r == IF passes
                THEN add_book(library, form.title, form.author, form.year,
                              form.genre, form.read_status, now + 1)
                ELSE Result(library, "warning", None)
       IN  /\ library' = r.library
           /\ now' = IF passes THEN now + 1 ELSE now
           /\ last' = Last(menu_options[1], <<PyDict(form)>>, r.msg, r.out)
    /\ UNCHANGED files

\* Every item of the library has the keys (KeyError or TypeError if not).
AllHave(lib, keys) ==
    \A i \in 1..Len(IterItems(lib)) : \A k \in keys : HasItem(IterItems(lib)[i], k)

\* The options of the select box of "Remove a Book", by position (one
\* stand-in choice when the page shows no select box).
RemoveChoices(lib) ==
    IF Truthy(lib) /\ Iterable(lib) /\ AllHave(lib, {"title"})
    THEN 1..Len(IterItems(lib))
    ELSE {1}

\* "Remove a Book": option i of the select box is chosen and the button
\* clicked.
RemovePage(i) ==
    /\ i \in RemoveChoices(library)
    /\ IF ~Truthy(library)
       THEN /\ library' = library
            /\ last' = Last(menu_options[2], <<>>, "info", None)
       ELSE IF ~Iterable(library) \/ ~AllHave(library, {"title"})
       THEN /\ library' = library
            /\ last' = Last(menu_options[2], <<>>, "exception", None)
       ELSE LET title_to_remove == IterItems(library)[i].dict.title
                r == remove_book(library, title_to_remove)
            IN  /\ library' = r.library
                /\ last' = Last(menu_options[2], <<title_to_remove>>, r.msg, r.out)
    /\ UNCHANGED <<files, now>>

\* "Search for Books"
SearchPage(search_by, search_term) ==
    /\ \E r \in {search_books(library, PyStr(search_term), search_by)} :
         LET args == <<PyStr(search_term), [field |-> search_by]>> IN
           last' =
             IF search_term = <<>> THEN Last(menu_options[3], args, "none", None)
             ELSE IF r.msg = "exception" THEN Last(menu_options[3], args, "exception", None)
             ELSE IF r.out.list = <<>> THEN Last(menu_options[3], args, "warning", r.out)
             ELSE IF ~AllHave(r.out, {"title", "author", "year", "genre", "read_status"})
                  THEN Last(menu_options[3], args, "exception", None)
             ELSE Last(menu_options[3], args, "none", r.out)
    /\ UNCHANGED <<library, files, now>>

\* The sort key of a book and whether the list is reversed.
SortKeyName(sort_by) ==
    IF sort_by = "Recently Added" THEN "added_date"
    ELSE IF sort_by = "Title" THEN "title"
    ELSE IF sort_by = "Author" THEN "author"
    ELSE "year"
SortKey(book, sort_by) ==
    IF sort_by \in {"Title", "Author"}
    THEN PyStr(lower(book.dict[SortKeyName(sort_by)].str))
    ELSE book.dict[SortKeyName(sort_by)]
\* Faulty variant of SortReverse: the box means the same for every sort key.
SortReverse_same_for_all(sort_by, reverse_sort) == reverse_sort
SortReverse(sort_by, reverse_sort) ==
    IF sort_by = "Recently Added" THEN ~reverse_sort ELSE reverse_sort

\* sorted_library of "View All Books", or the exception.
sorted_library(lib, sort_by, reverse_sort) ==
    IF ~IsList(lib) THEN Result(lib, "exception", None)
    ELSE LET items == lib.list
             name == SortKeyName(sort_by) IN
         IF \E i \in 1..Len(items) :
                IF sort_by \in {"Title", "Author"}
                THEN ~HasStr(items[i], name) ELSE ~HasItem(items[i], name)
         THEN Result(lib, "exception", None)
         ELSE LET keys == [i \in 1..Len(items) |-> SortKey(items[i], sort_by)] IN
              IF ~Comparable(keys) THEN Result(lib, "exception", None)
              ELSE Result(lib, "none",
                          PyList(Sorted(items, keys, SortReverse(sort_by, reverse_sort))))

\* "View All Books"
ViewPage(sort_by, reverse_sort) ==
    /\ \E r \in {sorted_library(library, sort_by, reverse_sort)} :
         LET args == <<[sort_by |-> sort_by], PyBool(reverse_sort)>> IN
           last' =
             IF ~Truthy(library) THEN Last(menu_options[4], args, "info", None)
             ELSE IF r.msg = "exception" THEN Last(menu_options[4], args, "exception", None)
             ELSE IF ~AllHave(r.out, {BookKeys[k] : k \in 1..Len(BookKeys)})
                  THEN Last(menu_options[4], args, "exception", None)
             ELSE Last(menu_options[4], args, "none", r.out)
    /\ UNCHANGED <<library, files, now>>

\* "View Statistics"
StatsPage ==
    /\ \E r \in {calculate_statistics(library)} :
           last' =
             IF ~Truthy(library) THEN Last(menu_options[5], <<>>, "info", None)
             ELSE Last(menu_options[5], <<>>, r.msg, r.out)
    /\ UNCHANGED <<library, files, now>>

\* How many chunks a save may get written: all of them, or a write fails
\* after at most MaxChunks.
WriteOutcomes(lib) ==
    LET n == Len(JsonEncode(lib)) IN {n} \cup {k \in 0..MaxChunks : k < n}

\* "Save/Load Library", the Save button. The file system decides whether
\* the file opens and how many chunks are written.
SavePage(filename, opened, written) ==
    /\ opened \/ written = 0
    /\ \E r \in {save_library_to_file(library, files, filename, opened, written)} :
           /\ files' = r.files
           /\ last' = Last("Save Library",
                           <<[filename |-> filename], PyBool(opened), PyInt(written)>>,
                           r.msg, None)
    /\ UNCHANGED <<library, now>>

\* "Save/Load Library", the Load button.
LoadPage(filename, readable) ==
    /\ \E r \in {load_library_from_file(library, files, filename, readable)} :
           /\ library' = r.library
           /\ last' = [Last("Load Library", <<[filename |-> filename], PyBool(readable)>>,
                            r.msg, None)
                       EXCEPT !.follows_save =
                            /\ last.op = "Save Library"
                            /\ last.msg = "success"
                            /\ last.args[1].filename = filename]
    /\ UNCHANGED <<files, now>>

(***************************************************************************)
(* The functions called directly, with any argument.                       *)
(***************************************************************************)
TitleArgs == {<<"a">>, <<"A", "B">>, <<"b">>}
SearchTerms == {<<>>} \cup NonEmptyTerms

CallRemove(title) ==
    /\ \E r \in {remove_book(library, PyStr(title))} :
           /\ library' = r.library
           /\ last' = Last("remove_book", <<PyStr(title)>>, r.msg, r.out)
    /\ UNCHANGED <<files, now>>

CallSearch(search_term, search_by) ==
    /\ \E r \in {search_books(library, PyStr(search_term), search_by)} :
           last' = Last("search_books", <<PyStr(search_term), [field |-> search_by]>>,
                        r.msg, r.out)
    /\ UNCHANGED <<library, files, now>>

CallStats ==
    /\ \E r \in {calculate_statistics(library)} :
           last' = Last("calculate_statistics", <<>>, r.msg, r.out)
    /\ UNCHANGED <<library, files, now>>

(***************************************************************************)
(* The files found when the session starts: none, or a file that is not    *)
(* JSON, or JSON that is no list of books.                                 *)
(***************************************************************************)
Unterminated == <<Punct("["), Punct("{")>>
NumberText == <<NumTok(5)>>
NumberListText == <<Punct("["), NumTok(5), Punct("]")>>
ObjectText == <<Punct("{"), KeyTok("title"), Punct(":"), StrTok(<<"a">>), Punct("}")>>
FoundFiles == {NoFile, FileOf(Unterminated), FileOf(NumberText),
               FileOf(NumberListText), FileOf(ObjectText)}

Start == Last("start", <<>>, "none", None)

\* The session: line 8 makes the library an empty list.
Init ==
    /\ library = PyList(<<>>)
    /\ files \in [Filenames -> FoundFiles]
    /\ now = 0
    /\ last = Start

Next ==
    \/ \E form \in AddForms : AddPage(form)
    \/ \E i \in RemoveChoices(library) : RemovePage(i)
    \/ \E search_by \in SearchFields, search_term \in SearchTerms :
            SearchPage(search_by, search_term)
    \/ \E sort_by \in SortKeys, reverse_sort \in BOOLEAN : ViewPage(sort_by, reverse_sort)
    \/ StatsPage
    \/ \E filename \in Filenames, opened \in BOOLEAN, written \in WriteOutcomes(library) :
            SavePage(filename, opened, written)
    \/ \E filename \in Filenames, readable \in BOOLEAN : LoadPage(filename, readable)

Spec == Init /\ [][Next]_vars

\* The libraries the functions are applied to: every list of at most
\* MaxStore books, each as add_book makes it, in any order of dates.
CoreDates == {1, 2}
CoreBooks ==
    { add_book(PyList(<<>>), form.title, form.author, form.year, form.genre,
               form.read_status, t).library.list[1] :
        form \in ValidForms, t \in CoreDates }
CoreStores == { PyList(xs) : xs \in UNION { [1..n -> CoreBooks] : n \in 0..MaxStore } }

InitCore ==
    /\ library \in CoreStores
    /\ files \in [Filenames -> {NoFile, FileOf(NumberListText)}]
    /\ now = 0
    /\ last = Start

NextCore ==
    \/ \E title \in TitleArgs : CallRemove(title)
    \/ \E search_term \in SearchTerms, search_by \in SearchFields :
            CallSearch(search_term, search_by)
    \/ CallStats
    \/ \E sort_by \in SortKeys, reverse_sort \in BOOLEAN : ViewPage(sort_by, reverse_sort)
    \/ \E filename \in Filenames, readable \in BOOLEAN : LoadPage(filename, readable)

SpecCore == InitCore /\ [][NextCore]_vars

\* The file functions on their own: any bounded library, any found file.
InitFile ==
    /\ library \in CoreStores
    /\ files \in [Filenames -> FoundFiles]
    /\ now = 0
    /\ last = Start

NextFile ==
    \/ \E filename \in Filenames, opened \in BOOLEAN, written \in WriteOutcomes(library) :
            SavePage(filename, opened, written)
    \/ \E filename \in Filenames, readable \in BOOLEAN : LoadPage(filename, readable)

SpecFile == InitFile /\ [][NextFile]_vars

(***************************************************************************)
(* What the properties speak of.                                           *)
(***************************************************************************)
\* A book record: the six fields with their types.
IsBook(v) ==
    /\ IsDict(v)
    /\ DOMAIN v.dict = {BookKeys[k] : k \in 1..Len(BookKeys)}
    /\ IsStr(v.dict.title) /\ IsStr(v.dict.author) /\ IsInt(v.dict.year)
    /\ IsStr(v.dict.genre) /\ IsBool(v.dict.read_status) /\ IsStr(v.dict.added_date)

\* A store: a list of book records.
IsStore(v) == IsList(v) /\ \A i \in 1..Len(v.list) : IsBook(v.list[i])

\* Strings equal ignoring case; a a substring of b ignoring case.
SameIgnoringCase(a, b) ==
    /\ Len(a) = Len(b)
    /\ \A i \in 1..Len(a) : LowerTable[a[i]] = LowerTable[b[i]]
SubstringIgnoringCase(a, b) ==
    \E i \in 1..(Len(b) + 1) : \E j \in (i - 1)..Len(b) :
        SameIgnoringCase(a, SubSeq(b, i, j))

\* The positions of the store whose title is t ignoring case.
TitleMatches(lib, t) ==
    {i \in 1..Len(lib.list) : SameIgnoringCase(lib.list[i].dict.title.str, t)}

ValidAdd(form) ==
    /\ form.title.str # <<>>
    /\ form.author.str # <<>>
    /\ form.year.int \in 0..CurrentYear

Appended(before, after, form) ==
    /\ IsList(after)
    /\ Len(after.list) = Len(before.list) + 1
    /\ SubSeq(after.list, 1, Len(before.list)) = before.list
    /\ LET new == after.list[Len(after.list)] IN
       /\ IsDict(new)
       /\ \A k \in DOMAIN form : k \in DOMAIN new.dict /\ new.dict[k] = form[k]

(***************************************************************************)
(* C1. Every Add submitted with a non-empty title, a non-empty author and  *)
(* a year in 0..CurrentYear (both ends included) appends exactly one       *)
(* record, the last, carrying the submitted fields, and leaves the earlier *)
(* records in place.                                                       *)
(***************************************************************************)
C1_ValidAddAppends ==
    [][\A form \in AddForms :
          (AddPage(form) /\ IsStore(library) /\ ValidAdd(form))
              => Appended(library, library', form)]_vars

RemovedAt(before, after, i) ==
    /\ IsList(after)
    /\ Len(after.list) = Len(before.list) - 1
    /\ \A j \in 1..(i - 1) : after.list[j] = before.list[j]
    /\ \A j \in i..Len(after.list) : after.list[j] = before.list[j + 1]

(***************************************************************************)
(* C2. On a store where some title equals t ignoring case, remove_book(t)  *)
(* deletes exactly the record at the lowest such position: the store is    *)
(* one shorter, the records before it stay, the records after it (also     *)
(* those with the same title) move up by one, unchanged.                   *)
(***************************************************************************)
C2_RemoveFirstMatch ==
    [][\A title \in TitleArgs :
          (last'.op = "remove_book" /\ CallRemove(title)
             /\ IsStore(library) /\ TitleMatches(library, title) # {})
              => /\ \E i \in TitleMatches(library, title) :
                      /\ \A j \in TitleMatches(library, title) : i <= j
                      /\ RemovedAt(library, library', i)
                 /\ last'.msg = "success"]_vars

\* A removal that left behind a later record with the same title.
C2_Witness ==
    /\ last.op = "remove_book"
    /\ last.msg = "success"
    /\ IsStore(library)
    /\ \E i \in TitleMatches(library, last.args[1].str) :
            library.list[i].dict.title.str # last.args[1].str
JustSaved(filename) ==
    /\ last.op = "Save Library"
    /\ last.msg = "success"
    /\ last.args[1].filename = filename

(***************************************************************************)
(* C3. Round trip: a Load of the file a successful Save has just written   *)
(* leaves the library equal to the one saved, record for record, field     *)
(* for field, in the same order.                                           *)
(***************************************************************************)
C3_SaveLoadRoundTrip ==
    [][\A filename \in Filenames, readable \in BOOLEAN :
          (JustSaved(filename) /\ last'.op = "Load Library" /\ LoadPage(filename, readable))
              => /\ library' = library
                 /\ readable => last'.msg = "success"]_vars

\* A load, right after the save, of two different books.
C3_Witness ==
    /\ last.op = "Load Library"
    /\ last.follows_save
    /\ last.msg = "success"
    /\ IsStore(library)
    /\ Len(library.list) >= 2
    /\ library.list[1] # library.list[2]

IsStoreText(text) == JsonDecode(text).ok /\ IsStore(JsonDecode(text).val)

(***************************************************************************)
(* C4. Load is all or nothing: when the file exists and its text is not    *)
(* JSON, or is JSON that is no list of book records, Load reports an       *)
(* error and leaves the library as it was.                                 *)
(***************************************************************************)
C4_LoadAllOrNothing ==
    [][\A filename \in Filenames :
          (LoadPage(filename, TRUE) /\ files[filename].exists
             /\ ~IsStoreText(files[filename].text))
              => /\ library' = library
                 /\ last'.msg = "error"]_vars

(***************************************************************************)
(* C5. No interaction ends with an exception that nothing handles: each    *)
(* completes or shows a warning or an error.                               *)
(***************************************************************************)
C5_NoUnhandledException == last.msg # "exception"

(***************************************************************************)
(* C6. Not found changes nothing: remove_book with a title no record has   *)
(* (ignoring case), and Load of a file that does not exist, each show a    *)
(* warning and leave the library as it was.                                *)
(***************************************************************************)
C6_NotFoundNoChange ==
    [][/\ \A title \in TitleArgs :
            (last'.op = "remove_book" /\ CallRemove(title)
               /\ IsStore(library) /\ TitleMatches(library, title) = {})
                => library' = library /\ last'.msg = "warning"
       /\ \A filename \in Filenames, readable \in BOOLEAN :
            (last'.op = "Load Library" /\ LoadPage(filename, readable)
               /\ ~files[filename].exists)
                => library' = library /\ last'.msg = "warning"]_vars

\* A title not found in a store that has records.
C6_Witness ==
    /\ last.op = "remove_book"
    /\ last.msg = "warning"
    /\ IsStore(library)
    /\ library.list # <<>>

\* Search results: xs is the subsequence of ys at the positions where Test holds.
IsSelection(xs, ys, Test(_)) ==
    LET hits == {i \in 1..Len(ys) : Test(ys[i])} IN
    /\ Len(xs) = Cardinality(hits)
    /\ \A i \in hits : xs[Cardinality({j \in hits : j <= i})] = ys[i]

(***************************************************************************)
(* C7. search_books(term, field) on a store returns exactly the records    *)
(* whose field contains the term ignoring case, in store order, one per    *)
(* position, and leaves the store unchanged; the empty term returns every  *)
(* record.                                                                 *)
(***************************************************************************)
C7_SearchSubsequence ==
    [][\A search_term \in SearchTerms, search_by \in SearchFields :
          (last'.op = "search_books" /\ last'.args[1].str = search_term
             /\ CallSearch(search_term, search_by)
             /\ IsStore(library))
              => /\ last'.msg = "none"
                 /\ IsList(last'.out)
                 /\ IsSelection(last'.out.list, library.list,
                        LAMBDA book :
                            SubstringIgnoringCase(search_term, book.dict[search_by].str))
                 /\ search_term = <<>> => last'.out.list = library.list
                 /\ library' = library]_vars

\* An upper-case term that found some records of the store, not all.
C7_Witness ==
    /\ last.op = "search_books"
    /\ last.args[1].str = <<"B">>
    /\ IsStore(library)
    /\ IsList(last.out)
    /\ last.out.list # <<>>
    /\ Len(last.out.list) < Len(library.list)
DateOf(book) == book.dict.added_date.str

\* shown lists the records of store, each once: shown[r] = store[pi[r]].
ShownBy(shown, store, pi) == \A r \in 1..Len(store) : shown[r] = store[pi[r]]

OldestFirst(store, pi) ==
    \A r, q \in 1..Len(store) :
        r < q => ~StrLess(DateOf(store[pi[q]]), DateOf(store[pi[r]]))
NewestFirst(store, pi) ==
    \A r, q \in 1..Len(store) :
        r < q => ~StrLess(DateOf(store[pi[r]]), DateOf(store[pi[q]]))
TiesInStoreOrder(store, pi) ==
    \A r, q \in 1..Len(store) :
        (r < q /\ DateOf(store[pi[r]]) = DateOf(store[pi[q]])) => pi[r] < pi[q]

\* The store is in insertion order: no record is older than one before it.
InInsertionOrder(store) ==
    \A i, j \in 1..Len(store) : i < j => ~StrLess(DateOf(store[j]), DateOf(store[i]))

RecentlyAddedShows(Order(_, _), reverse_sort) ==
    (last'.op = "View All Books" /\ ViewPage("Recently Added", reverse_sort)
       /\ IsStore(library) /\ library.list # <<>>)
        => /\ library' = library
           /\ last'.msg = "none"
           /\ IsList(last'.out)
           /\ Len(last'.out.list) = Len(library.list)
           /\ \E pi \in Permutations(1..Len(library.list)) :
                /\ ShownBy(last'.out.list, library.list, pi)
                /\ Order(library.list, pi)

(***************************************************************************)
(* C8, as the documentation states it. "View All Books" sorted by          *)
(* "Recently Added", on a store in insertion order, leaves the store as it *)
(* is and shows its records oldest first with the reverse box off, newest  *)
(* first with the box on.                                                  *)
(***************************************************************************)
C8_RecentlyAddedOldestFirstWhenOff ==
    [][(last'.op = "View All Books" /\ IsStore(library) /\ InInsertionOrder(library.list))
          => /\ RecentlyAddedShows(OldestFirst, FALSE)
             /\ RecentlyAddedShows(NewestFirst, TRUE)]_vars

(***************************************************************************)
(* C8, as the code has it. "View All Books" sorted by "Recently Added"     *)
(* leaves the store as it is and shows its records newest first with the   *)
(* reverse box off, oldest first with the box on; records with equal       *)
(* added_date are shown in store order either way.                         *)
(***************************************************************************)
C8_RecentlyAddedNewestFirstWhenOff ==
    [][/\ RecentlyAddedShows(LAMBDA store, pi :
                NewestFirst(store, pi) /\ TiesInStoreOrder(store, pi), FALSE)
       /\ RecentlyAddedShows(LAMBDA store, pi :
                OldestFirst(store, pi) /\ TiesInStoreOrder(store, pi), TRUE)]_vars

\* The reverse box off, and a store that holds the older record first.
C8_Witness ==
    /\ last.op = "View All Books"
    /\ last.args[1].sort_by = "Recently Added"
    /\ ~last.args[2].bool
    /\ last.msg = "none"
    /\ IsStore(library)
    /\ Len(library.list) >= 2
    /\ StrLess(DateOf(library.list[1]), DateOf(library.list[2]))

ReadCount(store) ==
    Cardinality({i \in 1..Len(store.list) : store.list[i].dict.read_status.bool})

StatsOf(stats, store) ==
    /\ IsDict(stats)
    /\ stats.dict.total_books = PyInt(Len(store.list))
    /\ stats.dict.read_books = PyInt(ReadCount(store))
    /\ stats.dict.unread_books = PyInt(Len(store.list) - ReadCount(store))
    /\ IF Len(store.list) = 0
       THEN stats.dict.read_percentage = PyInt(0)
       ELSE LET pct == stats.dict.read_percentage IN
            /\ DOMAIN pct = {"float"}
            /\ pct.float[2] > 0
            /\ pct.float[1] * Len(store.list) = ReadCount(store) * 100 * pct.float[2]
            /\ 0 <= pct.float[1]
            /\ pct.float[1] <= 100 * pct.float[2]

C10_FailedSaveKeepsFile ==
    [][\A filename \in Filenames, opened \in BOOLEAN, written \in WriteOutcomes(library) :
          (SavePage(filename, opened, written) /\ last'.msg = "error")
              => /\ files'[filename] = files[filename]
                 /\ library' = library]_vars

====
